---- MODULE Spec2Model ----
(***************************************************************************)
(* A model of zipclean (src/zipclean.c): the name sanitizer zip_fix, the   *)
(* backward scan zip_end, the directory locator zip_dir, the walker        *)
(* zip_entry, the per-archive driver zip_clean and the loop of main.       *)
(*                                                                         *)
(* Files are sequences of bytes with the byte-exact layout the code reads. *)
(* File offsets are the code's 0-based offsets; Byte(file, p) is the byte  *)
(* at offset p.  32- and 64-bit fields are kept as their little-endian     *)
(* bytes; a value is formed from them by LE, which saturates at FarOff     *)
(* (every value of 2^30 or more is FarOff, an offset beyond every file of  *)
(* the model and a count no file of the model can hold).                   *)
(***************************************************************************)
EXTENDS Integers, Sequences, FiniteSets, TLC

VARIABLES
  argv,     \* the command line after argv[0]: a sequence of arguments (byte strings)
  fix,      \* main's fix
  opt,      \* main's opt
  argi,     \* main's i in the loop over the files
  mpc,      \* where main is: "opts", "files", "clean", "exit0", "exit1"
  zip,      \* the zip_t of the running zip_clean, with its file position and locals
  files,    \* the file system: path -> bytes, or NOFILE
  orig,     \* the file system as it was at the start (never changes)
  desc,     \* the descriptor each file was built from (never changes)
  out,      \* stdout: the reports, in order
  err,      \* stderr: the diagnostics, in order
  calls,    \* the paths passed to zip_clean, in order
  aux       \* the running call's bytes written, entries processed and whether
            \* an I/O fault was injected; and a summary of each finished call

vars == <<argv, fix, opt, argi, mpc, zip, files, orig, desc, out, err, calls, aux>>

----------------------------------------------------------------------------
(* Program constants *)

LOCAL_SIG == 67324752
CENTRAL == 33639248
ZIP64LOC == 117853008
ZIP64END == 101075792
END == 101010256
ZLOCLEN == 20
ENDLEN == 22
MAX16 == 65535
MAX32 == <<255, 255, 255, 255>>
BLOCK == 512
INT_MAX == 2147483647
SLASH == 47
DOT == 46
USCORE == 95
DASH == 45

\* Every offset or count of 2^30 or more.
FarOff == 1073741824

\* A null pointer to a buffer, and a path that names no file: neither is a
\* sequence of bytes.
NULL == <<-1>>
NOFILE == <<-2>>

----------------------------------------------------------------------------
(* Bytes *)

Min(a, b) == IF a < b THEN a ELSE b

\* The byte at 0-based offset p.
Byte(file, p) == file[p + 1]

\* The len bytes at 0-based offset p.
Bytes(file, p, len) == SubSeq(file, p + 1, p + len)

\* Whether len bytes can be read at offset p.
Avail(file, p, len) == p >= 0 /\ p + len <= Len(file)

\* The little-endian unsigned value of bs (get2, get4, get8), saturating at FarOff.
RECURSIVE LE(_)
LE(bs) ==
  IF bs = <<>> THEN 0
  ELSE LET hi == LE(Tail(bs))
       IN IF hi >= FarOff \div 256 THEN FarOff ELSE Head(bs) + 256 * hi

\* An 8-byte value converted to off_t is negative when its top bit is set.
Negative(bs) == Len(bs) = 8 /\ bs[8] >= 128

\* file with bs written at offset p (p + Len(bs) <= Len(file)).
WriteAt(file, p, bs) ==
  [i \in 1..Len(file) |->
     IF i > p /\ i <= p + Len(bs) THEN bs[i - p] ELSE file[i]]

----------------------------------------------------------------------------
(* zip_fix: the name sanitizer *)

\* The loop of zip_fix from index i on: fx is fix[0..i-1].
RECURSIVE zip_fix_loop(_, _, _, _, _)
zip_fix_loop(name, i, par, fx, same) ==
  LET nlen == Len(name) IN
  IF i >= nlen THEN [fix |-> fx, same |-> same]
  ELSE
    LET ch == name[i + 1] IN
    IF ch = SLASH THEN zip_fix_loop(name, i + 1, 1, Append(fx, ch), same)
    ELSE IF par # 0 /\ ch = DOT THEN
      IF par + 1 = 3 THEN
        IF i = nlen - 1 \/ name[i + 2] = SLASH
        THEN zip_fix_loop(name, i + 1, 3,
                          Append([fx EXCEPT ![i] = USCORE], USCORE), FALSE)
        ELSE zip_fix_loop(name, i + 1, 0, Append(fx, ch), same)
      ELSE zip_fix_loop(name, i + 1, par + 1, Append(fx, ch), same)
    ELSE zip_fix_loop(name, i + 1, 0, Append(fx, ch), same)

\* zip_fix without the replacement of a leading slash.
zip_fix_noslash(name) ==
  IF Len(name) = 0 THEN NULL
  ELSE
    LET fx0 == <<name[1]>>
        par == IF fx0[1] = DOT THEN 2 ELSE 0
        r   == zip_fix_loop(name, 1, par, fx0, TRUE)
    IN IF r.same THEN NULL ELSE r.fix

\* zip_fix taking a leading slash for a separator as well: par starts at 1.
zip_fix_leadsep(name) ==
  IF Len(name) = 0 THEN NULL
  ELSE
    LET lead == name[1] = SLASH
        fx0  == IF lead THEN <<USCORE>> ELSE <<name[1]>>
        par  == IF fx0[1] = DOT THEN 2 ELSE IF lead THEN 1 ELSE 0
        r    == zip_fix_loop(name, 1, par, fx0, ~lead)
    IN IF r.same THEN NULL ELSE r.fix

zip_fix(name) ==
  IF Len(name) = 0 THEN NULL
  ELSE
    LET lead == name[1] = SLASH
        fx0  == IF lead THEN <<USCORE>> ELSE <<name[1]>>
        par  == IF fx0[1] = DOT THEN 2 ELSE 0
        r    == zip_fix_loop(name, 1, par, fx0, ~lead)
    IN IF r.same THEN NULL ELSE r.fix

----------------------------------------------------------------------------
(* One call of zip_clean is carried as a record c:                         *)
(*   z     the zip_t, with the file position pos, the position pc in       *)
(*         zip_clean and the locals n (zip_clean) and beg, end, back, sig  *)
(*         (zip_end);                                                      *)
(*   file  the bytes of the file at z.path;                                *)
(*   rep   what the call printed on stdout; diag what it printed on stderr;*)
(*   wrote the number of bytes fwrite has put in the file;                 *)
(*   nent  the number of central entries zip_entry has processed;          *)
(*   fired whether the environment made an I/O call of this call fail.     *)
(* Each function below takes c and the fault f the environment may inject  *)
(* and returns the c it leaves.                                            *)

NoFault == [at |-> "none", k |-> 0]

\* Report an error and give up on zip->path. Release resources.
throw(c, msg) ==
  [c EXCEPT !.diag = Append(@, [path |-> c.z.path, msg |-> msg,
                                modified |-> (c.z.mod = 1)]),
            !.z = [c.z EXCEPT !.in = FALSE, !.name = NULL, !.repl = NULL,
                              !.extra = NULL, !.pc = "thrown"]]

\* The environment made this call fail.
Fired(c) == [c EXCEPT !.fired = TRUE]

\* sig after (sig << 8) + b, as its four bytes, most significant first.
Shift(sig, b) == <<sig[2], sig[3], sig[4], b>>

\* The for loop of zip_end over buf[hi], buf[hi-1], ..., buf[lo] of the block
\* at beg: each byte is shifted into sig and sig is tested, until END is
\* found.  The range is walked top half first, then bottom half, which is the
\* same order of bytes.
RECURSIVE zip_end_range(_, _, _, _, _)
zip_end_range(file, beg, hi, lo, sig) ==
  IF hi < lo THEN [found |-> FALSE, i |-> hi, sig |-> sig]
  ELSE IF hi = lo THEN
    LET s == Shift(sig, Byte(file, beg + hi))
    IN [found |-> (LE(<<s[4], s[3], s[2], s[1]>>) = END), i |-> hi, sig |-> s]
  ELSE
    LET mid == (hi + lo + 1) \div 2
        top == zip_end_range(file, beg, hi, mid, sig)
    IN IF top.found THEN top
       ELSE zip_end_range(file, beg, mid - 1, lo, top.sig)

zip_end_scan(file, beg, i, sig) == zip_end_range(file, beg, i, 0, sig)

\* zip_end up to its while loop.
zip_end_start(c, f) ==
  IF f.at = "seek" THEN throw(Fired(c), "could not seek")
  ELSE
    LET end == Len(c.file)
        beg == IF end = 0 THEN 0 - BLOCK ELSE ((end - 1) \div BLOCK) * BLOCK
    IN [c EXCEPT !.z = [c.z EXCEPT !.pos = end, !.end = end, !.beg = beg,
                                   !.back = ENDLEN - 3,
                                   !.sig = <<0, 0, 0, 0>>, !.pc = "scan"]]

\* One test and iteration of the while loop of zip_end, and the throw after it.
zip_end_block(c, f) ==
  LET z == c.z IN
  IF z.beg < 0
  THEN throw(c, "end of central directory record not found in")
  ELSE IF f.at = "read" THEN throw(Fired(c), "read error")
  ELSE
    LET got == z.end - z.beg
        r   == zip_end_scan(c.file, z.beg, got - z.back, z.sig)
    IN IF r.found
       THEN [c EXCEPT !.z = [z EXCEPT !.pos = z.beg + r.i + 4, !.sig = r.sig,
                                      !.pc = "dir"]]
       ELSE [c EXCEPT !.z = [z EXCEPT !.pos = z.end, !.sig = r.sig,
                                      !.end = z.beg, !.beg = z.beg - BLOCK,
                                      !.back = IF got < z.back
                                               THEN z.back - got ELSE 1]]

\* The end of zip_dir: seek to the central directory, return the number of entries.
zip_dir_done(c, num, off, neg) ==
  IF neg THEN throw(c, "could not seek")
  ELSE [c EXCEPT !.z = [c.z EXCEPT !.pos = off, !.n = num, !.pc = "entry"]]

\* The zip64 branch of zip_dir; q is the position after the end record's offset.
zip_dir64(c, q) ==
  LET file == c.file
      l == q + 2 - ENDLEN - ZLOCLEN
  IN
  IF l < 0 THEN throw(c, "could not seek")
  ELSE IF ~Avail(file, l, 4) THEN throw(c, "premature EOF on")
  ELSE IF LE(Bytes(file, l, 4)) # ZIP64LOC
  THEN throw(c, "missing zip64 locator record in")
  ELSE IF ~Avail(file, l + 8, 8) THEN throw(c, "premature EOF on")
  ELSE
    LET e8 == Bytes(file, l + 8, 8)
        e  == LE(e8)
    IN
    IF Negative(e8) THEN throw(c, "could not seek")
    ELSE IF ~Avail(file, e, 4) THEN throw(c, "premature EOF on")
    ELSE IF LE(Bytes(file, e, 4)) # ZIP64END
    THEN throw(c, "missing zip64 end record in")
    ELSE IF ~Avail(file, e + 32, 8) THEN throw(c, "premature EOF on")
    ELSE IF ~Avail(file, e + 48, 8) THEN throw(c, "premature EOF on")
    ELSE zip_dir_done(c, LE(Bytes(file, e + 32, 8)), LE(Bytes(file, e + 48, 8)),
                      Negative(Bytes(file, e + 48, 8)))

\* zip_dir after zip_end has left the file pointer after the signature.
zip_dir(c, f) ==
  LET file == c.file
      p == c.z.pos
  IN
  IF f.at = "read" THEN throw(Fired(c), "read error")
  ELSE IF ~Avail(file, p + 6, 2) THEN throw(c, "premature EOF on")
  ELSE IF ~Avail(file, p + 12, 4) THEN throw(c, "premature EOF on")
  ELSE
    LET num == LE(Bytes(file, p + 6, 2))
        off == Bytes(file, p + 12, 4)
    IN IF num = MAX16 \/ off = MAX32
       THEN zip_dir64(c, p + 16)
       ELSE zip_dir_done(c, num, LE(off), FALSE)

\* The while loop of zip64_local from i on: the 8 bytes of the offset, or the
\* message of the throw.
RECURSIVE zip64_local_loop(_, _, _, _)
zip64_local_loop(extra, xlen, skip, i) ==
  IF i + 3 < xlen THEN
    LET id  == extra[i + 1] + 256 * extra[i + 2]
        len == extra[i + 3] + 256 * extra[i + 4]
    IN IF id = 1 THEN
         IF i + 4 + len > xlen \/ skip + 8 > len
         THEN [ok |-> FALSE, msg |-> "invalid zip64 info field in"]
         ELSE [ok |-> TRUE, off |-> SubSeq(extra, i + 4 + skip + 1, i + 4 + skip + 8)]
       ELSE zip64_local_loop(extra, xlen, skip, i + 4 + len)
  ELSE [ok |-> FALSE, msg |-> "missing zip64 info field in"]

zip64_local(extra, xlen, skip) == zip64_local_loop(extra, xlen, skip, 0)

----------------------------------------------------------------------------
(* zip_entry *)

\* fwrite of bs at the file position p: all of it, or only its first f.k bytes
\* when the environment cuts the write short (at names the fwrite).
zip_write(c, f, at, p, bs) ==
  IF f.at = at /\ f.k < Len(bs)
  THEN throw([Fired(c) EXCEPT !.file = WriteAt(@, p, SubSeq(bs, 1, f.k)),
                              !.wrote = @ + f.k],
             "write error")
  ELSE [c EXCEPT !.file = WriteAt(@, p, bs), !.wrote = @ + Len(bs),
                 !.z = [c.z EXCEPT !.pos = p + Len(bs)]]

\* zip_entry_next without the seek to the next central header.
zip_entry_next_noseek(c, next) ==
  [c EXCEPT !.z = [c.z EXCEPT !.name = NULL, !.repl = NULL,
                              !.n = IF @ = FarOff THEN FarOff ELSE @ - 1],
            !.nent = @ + 1]

\* The end of zip_entry: release the names and seek to the next central header.
zip_entry_next(c, next) ==
  [c EXCEPT !.z = [c.z EXCEPT !.name = NULL, !.repl = NULL, !.pos = next,
                              !.n = IF @ = FarOff THEN FarOff ELSE @ - 1],
            !.nent = @ + 1]

\* zip_entry_local_write without the test of zip->fix.
zip_entry_local_write_always(c, f, np, next) ==
  IF f.at = "seekl" THEN throw(Fired(c), "could not seek")
  ELSE LET w == zip_write(c, f, "writel", np, c.z.repl)
       IN IF w.z.pc = "thrown" THEN w ELSE zip_entry_next(w, next)

\* Replace the name in the local header (apply mode), then finish the entry.
zip_entry_local_write(c, f, np, next) ==
  IF c.z.fix = 1 THEN
    IF f.at = "seekl" THEN throw(Fired(c), "could not seek")
    ELSE LET w == zip_write(c, f, "writel", np, c.z.repl)
         IN IF w.z.pc = "thrown" THEN w ELSE zip_entry_next(w, next)
  ELSE zip_entry_next(c, next)

\* Go to the local header at local (neg: a negative off_t) and verify the
\* signature and the name.
zip_entry_local(c, f, local, neg, next) ==
  LET file == c.file
      nlen == Len(c.z.name)
  IN
  IF neg THEN throw(c, "could not seek")
  ELSE IF f.at = "readl" THEN throw(Fired(c), "read error")
  ELSE IF ~Avail(file, local, 4) THEN throw(c, "premature EOF on")
  ELSE IF LE(Bytes(file, local, 4)) # LOCAL_SIG
  THEN throw(c, "missing local header in")
  ELSE IF ~Avail(file, local + 26, 2) THEN throw(c, "premature EOF on")
  ELSE IF LE(Bytes(file, local + 26, 2)) # nlen
  THEN throw(c, "local/central name mismatch in")
  ELSE IF ~Avail(file, local + 30, nlen) THEN throw(c, "premature EOF on")
  ELSE IF Bytes(file, local + 30, nlen) # c.z.name
  THEN throw(c, "local/central name mismatch in")
  ELSE zip_entry_local_write(c, f, local + 30, next)

\* Find the offset of the local header: the central header's, or when that
\* is MAX32 the one in the extra field, loaded from the file position xp.
\* In apply mode this load is an fread directly after the fwrite of the
\* central name, with no fflush or seek between them: undefined behaviour.
\* The outcomes modelled are the read done as if positioned, a read error,
\* and a buffer of zero bytes.
zip_entry_offset(c, f, local4, xp, xlen, skip, next) ==
  IF local4 # MAX32 THEN zip_entry_local(c, f, LE(local4), FALSE, next)
  ELSE
    LET ub == c.z.fix = 1 /\ xlen > 0 IN
    IF ub /\ f.at = "ub_fail" THEN throw(Fired(c), "read error")
    ELSE IF ~Avail(c.file, xp, xlen) THEN throw(c, "premature EOF on")
    ELSE
      LET zero  == ub /\ f.at = "ub_zero"
          extra == IF xlen = 0 THEN NULL
                   ELSE IF zero THEN [i \in 1..xlen |-> 0]
                   ELSE Bytes(c.file, xp, xlen)
          r     == zip64_local(extra, xlen, skip)
          c1    == IF zero THEN Fired(c) ELSE c
      IN IF ~r.ok THEN throw(c1, r.msg)
         ELSE zip_entry_local(c1, f, LE(r.off), Negative(r.off), next)

\* zip_entry_fix without the seek back over the name: the replacement is
\* written where the file pointer is, after the name.
zip_entry_fix_noseek(c, f, np, local4, xlen, skip, next) ==
  LET nlen == Len(c.z.name)
      c1 == [c EXCEPT !.rep = Append(@, [path |-> c.z.path, name |-> c.z.name,
                                         repl |-> c.z.repl])]
  IN
  IF c.z.fix = 1 THEN
    LET c2 == [c1 EXCEPT !.z = [c1.z EXCEPT !.mod = 1]]
        w  == zip_write(c2, f, "writec", np + nlen, c.z.repl)
    IN IF w.z.pc = "thrown" THEN w
       ELSE zip_entry_offset(w, f, local4, np + nlen + nlen, xlen, skip, next)
  ELSE zip_entry_offset(c1, f, local4, np + nlen, xlen, skip, next)

\* The name needs to be fixed: report it and, in apply mode, replace it in
\* the central header. np is the offset of the central name.
zip_entry_fix(c, f, np, local4, xlen, skip, next) ==
  LET nlen == Len(c.z.name)
      c1 == [c EXCEPT !.rep = Append(@, [path |-> c.z.path, name |-> c.z.name,
                                         repl |-> c.z.repl])]
  IN
  IF c.z.fix = 1 THEN
    LET c2 == [c1 EXCEPT !.z = [c1.z EXCEPT !.mod = 1]] IN
    IF f.at = "seekc" THEN throw(Fired(c2), "could not seek")
    ELSE LET w == zip_write(c2, f, "writec", np, c.z.repl)
         IN IF w.z.pc = "thrown" THEN w
            ELSE zip_entry_offset(w, f, local4, np + nlen, xlen, skip, next)
  ELSE zip_entry_offset(c1, f, local4, np + nlen, xlen, skip, next)

\* Process the entry for the central directory header at the file pointer.
zip_entry(c, f) ==
  LET file == c.file
      p == c.z.pos
  IN
  IF f.at = "read" THEN throw(Fired(c), "read error")
  ELSE IF ~Avail(file, p, 4) THEN throw(c, "premature EOF on")
  ELSE IF LE(Bytes(file, p, 4)) # CENTRAL
  THEN throw(c, "missing central header in")
  ELSE IF ~Avail(file, p + 20, 26) THEN throw(c, "premature EOF on")
  ELSE
    LET skip == 8 * ((IF Bytes(file, p + 20, 4) = MAX32 THEN 1 ELSE 0)
                     + (IF Bytes(file, p + 24, 4) = MAX32 THEN 1 ELSE 0))
        nlen == LE(Bytes(file, p + 28, 2))
        xlen == LE(Bytes(file, p + 30, 2))
        clen == LE(Bytes(file, p + 32, 2))
        local4 == Bytes(file, p + 42, 4)
        np == p + 46
        next == np + nlen + xlen + clen
    IN
    IF nlen > 0 /\ f.at = "oom" THEN throw(Fired(c), "out of memory")
    ELSE IF ~Avail(file, np, nlen) THEN throw(c, "premature EOF on")
    ELSE
      LET name == Bytes(file, np, nlen)
          repl == zip_fix(name)
          c1 == [c EXCEPT !.z = [c.z EXCEPT !.name = name, !.repl = repl]]
      IN IF repl = NULL THEN zip_entry_next(c1, next)
         ELSE zip_entry_fix(c1, f, np, local4, xlen, skip, next)

----------------------------------------------------------------------------
(* zip_clean and main *)

\* The zip_t when no zip_clean is running.
ZipIdle ==
  [path |-> <<>>, in |-> FALSE, fix |-> 0, mod |-> 0, name |-> NULL,
   repl |-> NULL, extra |-> NULL, pos |-> 0, pc |-> "idle", n |-> 0,
   beg |-> 0, end |-> 0, back |-> 0, sig |-> <<0, 0, 0, 0>>]

\* The start of zip_clean: open the file, prepare for throw.
zip_clean_open(path, fx, file, f) ==
  LET c == [z |-> [ZipIdle EXCEPT !.path = path, !.fix = fx, !.pc = "end",
                                  !.in = (file # NOFILE /\ f.at # "open")],
            file |-> file, rep |-> <<>>, diag |-> <<>>, wrote |-> 0,
            nent |-> 0, fired |-> (file # NOFILE /\ f.at = "open")]
  IN IF ~c.z.in
     THEN throw(c, IF fx = 1 THEN "failed to open (for writing)"
                   ELSE "failed to open")
     ELSE c

\* The end of zip_clean: fclose(zip->in) once n is 0.
zip_clean_close(c) == [c EXCEPT !.z = [c.z EXCEPT !.in = FALSE, !.pc = "closed"]]

\* zip_clean from c on, with no I/O failure, until it returns.
RECURSIVE zip_clean_run(_)
zip_clean_run(c) ==
  CASE c.z.pc = "end" -> zip_clean_run(zip_end_start(c, NoFault))
    [] c.z.pc = "scan" -> zip_clean_run(zip_end_block(c, NoFault))
    [] c.z.pc = "dir" -> zip_clean_run(zip_dir(c, NoFault))
    [] c.z.pc = "entry" /\ c.z.n # 0 -> zip_clean_run(zip_entry(c, NoFault))
    [] c.z.pc = "entry" /\ c.z.n = 0 -> zip_clean_close(c)
    [] OTHER -> c

\* Clean the zip file path: the whole call, with no I/O failure.
zip_clean(path, fx, file) == zip_clean_run(zip_clean_open(path, fx, file, NoFault))

\* The options loop of main from argument i on.
RECURSIVE main_options(_, _, _)
main_options(av, i, fx) ==
  IF i > Len(av) THEN [fix |-> fx, opt |-> INT_MAX, bad |-> FALSE]
  ELSE IF av[i] # <<>> /\ av[i][1] = DASH THEN
    IF Tail(av[i]) = <<102>> THEN main_options(av, i + 1, 1)
    ELSE IF Tail(av[i]) = <<DASH>> THEN [fix |-> fx, opt |-> i, bad |-> FALSE]
    ELSE [fix |-> fx, opt |-> INT_MAX, bad |-> TRUE]
  ELSE main_options(av, i + 1, fx)

\* main_is_file with i >= opt for i > opt.
main_is_file_ge(av, i, op) == av[i] = <<>> \/ av[i][1] # DASH \/ i >= op

\* The test of the files loop of main: argv[i] is a file to process.
main_is_file(av, i, op) == av[i] = <<>> \/ av[i][1] # DASH \/ i > op

----------------------------------------------------------------------------
(* The archives of the model.  A descriptor d names the central entries    *)
(* (ents: their names), at most one special entry (sp, 0 for none) of kind *)
(* kind, and the trailer.  Every entry k has a local header of its own     *)
(* followed by one byte of data; the central entry k refers to it, except  *)
(* that a "dup" entry refers to the local header of entry k - 1 and a      *)
(* "nosig" entry to the byte after the start of its local header.          *)

MaxEntries == 2
MaxArgs == 3

ArchNames == {<<97>>, <<47, 97>>, <<46, 46>>, <<97, 47, 46, 46>>}
Kinds == {"dup", "slash", "long", "nosig", "z64", "z64none"}
Trailers == {"comment", "over", "zip64", "zip64huge", "noloc", "nozip"}

RECURSIVE LEBytes(_, _)
LEBytes(v, w) == IF w = 0 THEN <<>> ELSE <<v % 256>> \o LEBytes(v \div 256, w - 1)

Zeros(w) == [i \in 1..w |-> 0]
Ones(w) == [i \in 1..w |-> 255]

RECURSIVE SeqSum(_)
SeqSum(q) == IF q = <<>> THEN 0 ELSE Head(q) + SeqSum(Tail(q))

RECURSIVE Flatten(_)
Flatten(q) == IF q = <<>> THEN <<>> ELSE Head(q) \o Flatten(Tail(q))

KindOf(d, k) == IF d.sp = k THEN d.kind ELSE "same"

\* The name in the local header of entry k.
LName(d, k) ==
  LET nm == d.ents[k] IN
  CASE KindOf(d, k) = "slash" ->
         <<IF nm[1] = SLASH THEN 97 ELSE SLASH>> \o Tail(nm)
    [] KindOf(d, k) = "long" -> Append(nm, 97)
    [] OTHER -> nm

LocalBytes(d, k) ==
  LEBytes(LOCAL_SIG, 4) \o Zeros(22) \o LEBytes(Len(LName(d, k)), 2)
    \o LEBytes(0, 2) \o LName(d, k) \o <<7>>

\* The offset of the local header of entry k, and of the one entry k refers to.
LocOff(d, k) == SeqSum([j \in 1..(k - 1) |-> Len(LocalBytes(d, j))])
Ref(d, k) ==
  CASE KindOf(d, k) = "dup" -> LocOff(d, k - 1)
    [] KindOf(d, k) = "nosig" -> LocOff(d, k) + 1
    [] OTHER -> LocOff(d, k)

CentralExtra(d, k) ==
  IF KindOf(d, k) = "z64"
  THEN <<9, 0, 0, 0>> \o <<1, 0, 16, 0>> \o LEBytes(1, 8) \o LEBytes(Ref(d, k), 8)
  ELSE <<9, 0, 0, 0>>

CentralBytes(d, k) ==
  LET z64 == KindOf(d, k) \in {"z64", "z64none"} IN
  LEBytes(CENTRAL, 4) \o Zeros(16)
    \o (IF z64 THEN MAX32 ELSE LEBytes(1, 4)) \o LEBytes(1, 4)
    \o LEBytes(Len(d.ents[k]), 2) \o LEBytes(Len(CentralExtra(d, k)), 2)
    \o LEBytes(1, 2) \o Zeros(8)
    \o (IF z64 THEN MAX32 ELSE LEBytes(Ref(d, k), 4))
    \o d.ents[k] \o CentralExtra(d, k) \o <<99>>

NEnts(d) == Len(d.ents)
CDOff(d) == LocOff(d, NEnts(d) + 1)
CentOff(d, k) == CDOff(d) + SeqSum([j \in 1..(k - 1) |-> Len(CentralBytes(d, j))])
CDEnd(d) == CentOff(d, NEnts(d) + 1)

\* The offsets of the name fields of entry k.
CNamePos(d, k) == CentOff(d, k) + 46
LNamePos(d, k) == Ref(d, k) + 30

EndBytes(sig0, count, off4, comment) ==
  <<sig0>> \o Tail(LEBytes(END, 4)) \o Zeros(4) \o LEBytes(count, 2)
    \o LEBytes(count, 2) \o LEBytes(0, 4) \o off4 \o LEBytes(Len(comment), 2)
    \o comment

Zip64Bytes(d, count8) ==
  LEBytes(ZIP64END, 4) \o LEBytes(44, 8) \o Zeros(12) \o count8 \o count8
    \o LEBytes(0, 8) \o LEBytes(CDOff(d), 8)
    \o LEBytes(ZIP64LOC, 4) \o Zeros(4) \o LEBytes(CDEnd(d), 8) \o LEBytes(1, 4)

TrailerBytes(d) ==
  LET n == NEnts(d)
      off4 == LEBytes(CDOff(d), 4)
  IN
  CASE d.trailer = "plain" -> EndBytes(80, n, off4, <<>>)
    [] d.trailer = "comment" -> EndBytes(80, n, off4, <<33, 33>>)
    [] d.trailer = "over" -> EndBytes(80, n + 1, off4, <<>>)
    [] d.trailer = "zip64" ->
         Zip64Bytes(d, LEBytes(n, 8)) \o EndBytes(80, MAX16, MAX32, <<>>)
    [] d.trailer = "zip64huge" ->
         Zip64Bytes(d, Ones(8)) \o EndBytes(80, MAX16, MAX32, <<>>)
    [] d.trailer = "noloc" -> EndBytes(80, MAX16, off4, <<>>)
    [] d.trailer = "nozip" -> EndBytes(81, n, off4, <<>>)

\* The descriptor of a path that names no file.
NoDesc == [ents |-> <<>>, sp |-> 0, kind |-> "same", trailer |-> "nofile"]

Build(d) ==
  IF d = NoDesc THEN NOFILE
  ELSE IF d.trailer = "empty" THEN <<>>
  ELSE Flatten([k \in 1..NEnts(d) |-> LocalBytes(d, k)])
         \o Flatten([k \in 1..NEnts(d) |-> CentralBytes(d, k)])
         \o TrailerBytes(d)

NameSeqs == UNION {[1..n -> ArchNames] : n \in 0..MaxEntries}

Descs ==
  {[ents |-> e, sp |-> 0, kind |-> "same", trailer |-> "plain"] : e \in NameSeqs}
  \cup {[ents |-> e, sp |-> 0, kind |-> "same", trailer |-> t] :
          e \in NameSeqs, t \in Trailers}
  \cup {d \in [ents : NameSeqs, sp : 1..MaxEntries, kind : Kinds,
               trailer : {"plain"}] :
          d.sp <= Len(d.ents) /\ (d.kind = "dup" => d.sp >= 2)}
  \cup {[ents |-> <<>>, sp |-> 0, kind |-> "same", trailer |-> "empty"]}

\* The archives a command line of several files draws from: one whose name
\* is corrected, and one with two entries sharing a local header.
FewDescs ==
  {[ents |-> <<<<47, 97>>>>, sp |-> 0, kind |-> "same", trailer |-> "plain"],
   [ents |-> <<<<46, 46>>, <<46, 46>>>>, sp |-> 2, kind |-> "dup",
    trailer |-> "plain"]}

----------------------------------------------------------------------------
(* The command lines of the model *)

PA == <<65>>
PB == <<66>>
PC == <<67>>
DASHF == <<DASH, 102>>
DASHDASH == <<DASH, DASH>>
DASHX == <<DASH, 120>>

Tokens == {DASHF, DASHDASH, PA, PB, PC}
Paths == Tokens \cup {DASHX}

Count(av, t) == Cardinality({i \in 1..Len(av) : av[i] = t})

\* No file is named twice, so that a call finds its file as it was at the start.
CmdLines ==
  {av \in UNION {[1..n -> Tokens] : n \in 1..MaxArgs} :
     \A t \in {PA, PB, PC} : Count(av, t) <= 1}
  \cup {<<DASHX, PA>>, <<PA, DASHX>>}

\* The I/O failures the environment can inject in each step.
ShortLens == {0, 1}
OpenFaults == {NoFault, [at |-> "open", k |-> 0]}
StartFaults == {NoFault, [at |-> "seek", k |-> 0]}
ReadFaults == {NoFault, [at |-> "read", k |-> 0]}
EntryFaults ==
  {[at |-> a, k |-> 0] :
     a \in {"none", "read", "oom", "seekc", "ub_fail", "ub_zero", "readl", "seekl"}}
  \cup {[at |-> a, k |-> k] : a \in {"writec", "writel"}, k \in ShortLens}

InitMain(av, ds) ==
  /\ argv = av
  /\ desc = ds
  /\ files = [p \in Paths |-> Build(ds[p])]
  /\ orig = files
  /\ fix = 0
  /\ opt = INT_MAX
  /\ argi = 1
  /\ mpc = "opts"
  /\ zip = ZipIdle
  /\ out = <<>>
  /\ err = <<>>
  /\ calls = <<>>
  /\ aux = [wrote |-> 0, nent |-> 0, fired |-> FALSE, done |-> <<>>]

\* The descriptors of the files: PC and the option-like paths do not exist.
DescsOf(dA, dB) ==
  [p \in Paths |-> IF p = PA THEN dA ELSE IF p = PB THEN dB ELSE NoDesc]

Init ==
  \/ \E av \in {<<PA>>, <<DASHF, PA>>}, d \in Descs : InitMain(av, DescsOf(d, NoDesc))
  \/ \E av \in CmdLines, dA \in FewDescs, dB \in FewDescs :
       InitMain(av, DescsOf(IF Count(av, PA) > 0 THEN dA ELSE NoDesc,
                            IF Count(av, PB) > 0 THEN dB ELSE NoDesc))

----------------------------------------------------------------------------
(* The steps *)

\* The running call as a record c, with nothing printed yet in this step.
Cur ==
  [z |-> zip, file |-> files[zip.path], rep |-> <<>>, diag |-> <<>>,
   wrote |-> aux.wrote, nent |-> aux.nent, fired |-> aux.fired]

\* What a step of zip_clean leaves: the file, what it printed and, when
\* zip_clean has returned (normally or by longjmp), main's loop going on.
Leave(c) ==
  LET over == c.z.pc \in {"thrown", "closed"} IN
  /\ files' = [files EXCEPT ![c.z.path] = c.file]
  /\ out' = out \o c.rep
  /\ err' = err \o c.diag
  /\ zip' = IF over THEN ZipIdle ELSE c.z
  /\ mpc' = IF over THEN "files" ELSE "clean"
  /\ argi' = IF over THEN argi + 1 ELSE argi
  /\ aux' = IF over
            THEN [wrote |-> 0, nent |-> 0, fired |-> FALSE,
                  done |-> Append(aux.done,
                                  [path |-> c.z.path, wrote |-> c.wrote,
                                   nent |-> c.nent, fired |-> c.fired,
                                   ok |-> (c.z.pc = "closed"),
                                   msg |-> IF c.diag = <<>> THEN ""
                                           ELSE c.diag[1].msg,
                                   modified |-> (c.diag # <<>>
                                                 /\ c.diag[1].modified)])]
            ELSE [aux EXCEPT !.wrote = c.wrote, !.nent = c.nent,
                             !.fired = c.fired]
  /\ UNCHANGED <<argv, fix, opt, orig, desc>>

\* main: process options.
Main_options ==
  /\ mpc = "opts"
  /\ LET r == main_options(argv, 1, 0) IN
       /\ fix' = r.fix
       /\ opt' = r.opt
       /\ mpc' = IF r.bad THEN "exit1" ELSE "files"
  /\ UNCHANGED <<argv, argi, zip, files, orig, desc, out, err, calls, aux>>

\* main: one turn of the loop over the files; zip_clean is entered for a file.
Main_files ==
  /\ mpc = "files"
  /\ IF argi > Len(argv)
     THEN /\ mpc' = "exit0"
          /\ UNCHANGED <<argv, fix, opt, argi, zip, files, orig, desc, out, err,
                         calls, aux>>
     ELSE IF main_is_file(argv, argi, opt)
     THEN \E f \in OpenFaults :
            /\ Leave(zip_clean_open(argv[argi], fix, files[argv[argi]], f))
            /\ calls' = Append(calls, argv[argi])
     ELSE /\ argi' = argi + 1
          /\ UNCHANGED <<argv, fix, opt, mpc, zip, files, orig, desc, out, err,
                         calls, aux>>

Zip_end_start ==
  /\ mpc = "clean" /\ zip.pc = "end"
  /\ \E f \in StartFaults : Leave(zip_end_start(Cur, f))
  /\ UNCHANGED calls

Zip_end_block ==
  /\ mpc = "clean" /\ zip.pc = "scan"
  /\ \E f \in ReadFaults : Leave(zip_end_block(Cur, f))
  /\ UNCHANGED calls

Zip_dir ==
  /\ mpc = "clean" /\ zip.pc = "dir"
  /\ \E f \in ReadFaults : Leave(zip_dir(Cur, f))
  /\ UNCHANGED calls

\* zip_clean: one turn of while (n) { zip_entry(zip); n--; }.
Zip_entry ==
  /\ mpc = "clean" /\ zip.pc = "entry" /\ zip.n # 0
  /\ \E f \in EntryFaults : Leave(zip_entry(Cur, f))
  /\ UNCHANGED calls

\* zip_clean: n is 0; fclose and return.
Zip_close ==
  /\ mpc = "clean" /\ zip.pc = "entry" /\ zip.n = 0
  /\ Leave(zip_clean_close(Cur))
  /\ UNCHANGED calls

Next ==
  \/ Main_options
  \/ Main_files
  \/ Zip_end_start
  \/ Zip_end_block
  \/ Zip_dir
  \/ Zip_entry
  \/ Zip_close

Spec == Init /\ [][Next]_vars

----------------------------------------------------------------------------
(* zip_fix on its own: every name of up to MaxLen bytes over NameBytes is  *)
(* loaded in zip->name, and Zip_fix applies zip_fix to it.                 *)

MaxLen == 4
NameBytes == {SLASH, DOT, USCORE, 97}
Names == UNION {[1..n -> NameBytes] : n \in 0..MaxLen}

\* zip_entry has loaded the name.
InitFix ==
  /\ \E nm \in Names : zip = [ZipIdle EXCEPT !.name = nm, !.pc = "fix"]
  /\ files = [p \in Paths |-> NOFILE]
  /\ desc = [p \in Paths |-> NoDesc]
  /\ argv = <<PA>>
  /\ orig = files
  /\ fix = 0
  /\ opt = INT_MAX
  /\ argi = 1
  /\ mpc = "clean"
  /\ out = <<>>
  /\ err = <<>>
  /\ calls = <<PA>>
  /\ aux = [wrote |-> 0, nent |-> 0, fired |-> FALSE, done |-> <<>>]

\* zip->repl = zip_fix(zip, nlen)
Zip_fix ==
  /\ zip.pc = "fix"
  /\ zip' = [zip EXCEPT !.repl = zip_fix(zip.name), !.pc = "fixed"]
  /\ UNCHANGED <<argv, fix, opt, argi, mpc, files, orig, desc, out, err, calls, aux>>

NextFix == Zip_fix

SpecFix == InitFix /\ [][NextFix]_vars

\* The name that results: the replacement, or the name itself when zip_fix
\* returned NULL.
Result == IF zip.repl = NULL THEN zip.name ELSE zip.repl

\* nm[i], nm[i+1] is a component that is exactly "..".
DotDotAt(nm, i) ==
  /\ i + 1 <= Len(nm)
  /\ nm[i] = DOT /\ nm[i + 1] = DOT
  /\ (i = 1 \/ nm[i - 1] = SLASH)
  /\ (i + 1 = Len(nm) \/ nm[i + 2] = SLASH)

Safe(nm) ==
  /\ nm # <<>> => nm[1] # SLASH
  /\ \A i \in 1..Len(nm) : ~DotDotAt(nm, i)

\* C1: for every name of length >= 1, the name that results from zip_fix
\* does not begin with '/' and has no '/'-delimited component that is "..".
C1_FixSafe ==
  (zip.pc = "fixed" /\ Len(zip.name) >= 1) => Safe(Result)

\* "/.." is sanitized to "_..".
C1_Witness ==
  zip.pc = "fixed" /\ zip.name = <<SLASH, DOT, DOT>> /\ zip.repl = <<USCORE, DOT, DOT>>

\* The positions C2 says are rewritten (1-based): position 1 when it holds
\* '/', and both dots of a pair that starts at position 1 or directly after a
\* '/' that is not at position 1, and is followed by '/' or by the end.
Rewritten(nm) ==
  {i \in 1..Len(nm) : i = 1 /\ nm[1] = SLASH}
  \cup UNION {{i, i + 1} : i \in {j \in 1..(Len(nm) - 1) :
                /\ nm[j] = DOT /\ nm[j + 1] = DOT
                /\ (j = 1 \/ (j >= 3 /\ nm[j - 1] = SLASH))
                /\ (j + 1 = Len(nm) \/ nm[j + 2] = SLASH)}}

Expected(nm) ==
  IF Rewritten(nm) = {} THEN NULL
  ELSE [i \in 1..Len(nm) |-> IF i \in Rewritten(nm) THEN USCORE ELSE nm[i]]

----------------------------------------------------------------------------
(* zip_end on its own: files made of leading bytes, one end record and a   *)
(* comment.  The record starts at offset lead; the leading bytes are zeros,*)
(* or start with the bytes of the signature (leadsig); the comment is clen *)
(* bytes 'a', or holds the bytes of the signature at its offset s (kind    *)
(* "sig"); kind "none" spoils the signature of the record, so that the     *)
(* file holds no signature at all.                                         *)

MaxSlack == 3
MaxBlocks == 2
MaxBack == 26
MaxComment == 23

LeadLens ==
  (0..MaxSlack) \cup {q * BLOCK - r : q \in 1..MaxBlocks, r \in 0..MaxBack}
CommentLens == (0..MaxComment) \cup {BLOCK + 1}
SigAts(clen) == {s \in {0, clen - ENDLEN, clen - ENDLEN + 1, clen - 4} :
                   0 <= s /\ s <= clen - 4}

EndDescs ==
  {[lead |-> l, leadsig |-> ls, kind |-> "plain", clen |-> cl, s |-> 0] :
     l \in LeadLens, ls \in BOOLEAN, cl \in CommentLens}
  \cup {e \in [lead : LeadLens, leadsig : {FALSE}, kind : {"sig"},
               clen : CommentLens, s : 0..(BLOCK + 1)] : e.s \in SigAts(e.clen)}
  \cup {[lead |-> l, leadsig |-> FALSE, kind |-> "none", clen |-> cl, s |-> 0] :
          l \in LeadLens, cl \in CommentLens}

Fill(b, w) == [i \in 1..w |-> b]

EndFile(e) ==
  (IF e.leadsig /\ e.lead >= 4
   THEN LEBytes(END, 4) \o Zeros(e.lead - 4) ELSE Zeros(e.lead))
  \o EndBytes(IF e.kind = "none" THEN 81 ELSE 80, 0, Zeros(4),
              IF e.kind = "sig"
              THEN Fill(97, e.s) \o LEBytes(END, 4) \o Fill(97, e.clen - e.s - 4)
              ELSE Fill(97, e.clen))

\* zip_clean has opened the file at PA and is about to call zip_dir.
InitEnd ==
  /\ \E e \in EndDescs :
       /\ desc = [p \in Paths |-> IF p = PA THEN e ELSE NoDesc]
       /\ files = [p \in Paths |-> IF p = PA THEN EndFile(e) ELSE NOFILE]
  /\ zip = [ZipIdle EXCEPT !.path = PA, !.in = TRUE, !.pc = "end"]
  /\ argv = <<PA>>
  /\ orig = files
  /\ fix = 0
  /\ opt = INT_MAX
  /\ argi = 1
  /\ mpc = "clean"
  /\ out = <<>>
  /\ err = <<>>
  /\ calls = <<PA>>
  /\ aux = [wrote |-> 0, nent |-> 0, fired |-> FALSE, done |-> <<>>]

NextEnd == Zip_end_start \/ Zip_end_block

SpecEnd == InitEnd /\ [][NextEnd]_vars

NotFound == "end of central directory record not found in"

\* C7: zip_end leaves the file pointer right after the signature of the real
\* end record (at offset lead), whatever the comment holds, and it fails
\* with "not found" exactly when the file holds no signature.
C7_EndFound ==
  LET e == desc[PA] IN
  /\ zip.pc = "dir" => (e.kind # "none" /\ zip.pos = e.lead + 4)
  /\ \A i \in 1..Len(err) : err[i].msg = NotFound => e.kind = "none"

\* What the scan does find: the last place at or before size - ENDLEN where
\* the four bytes of the signature stand.
SigPlaces(file) ==
  {p \in 0..(Len(file) - ENDLEN) : LE(Bytes(file, p, 4)) = END}

EndScanFindsLast ==
  LET file == files[PA]
      ps == SigPlaces(file)
  IN
  /\ zip.pc = "dir" =>
       (ps # {} /\ zip.pos = 4 + CHOOSE p \in ps : \A q \in ps : q <= p)
  /\ \A i \in 1..Len(err) : err[i].msg = NotFound => ps = {}

----------------------------------------------------------------------------
(* The claims about zip_clean and main, under Spec *)

Archives == {p \in Paths : orig[p] # NOFILE}

\* What zip_clean printed on stdout about path p.
ReportsOf(p) == SelectSeq(out, LAMBDA r : r.path = p)

\* The entries of d whose name C2 says is rewritten, in directory order, and
\* those among them that the first m reports are about.
RECURSIVE Unsafe(_, _)
Unsafe(d, k) ==
  IF k > NEnts(d) THEN <<>>
  ELSE (IF Rewritten(d.ents[k]) # {} THEN <<k>> ELSE <<>>) \o Unsafe(d, k + 1)

Reported(d, m) ==
  {Unsafe(d, 1)[j] : j \in 1..Min(m, Len(Unsafe(d, 1)))}

\* The offsets of the name fields of the entries of d reported as corrected,
\* in the central directory and in the local headers they refer to.
NameFields(d, m) ==
  UNION {(CNamePos(d, k)..(CNamePos(d, k) + Len(d.ents[k]) - 1))
         \cup (LNamePos(d, k)..(LNamePos(d, k) + Len(d.ents[k]) - 1)) :
           k \in Reported(d, m)}

\* C3: report mode never changes a byte of any file and never sets the
\* modified flag, whether the run succeeds or fails.
C3_ReportNoWrite ==
  fix = 0 =>
    /\ files = orig
    /\ zip.mod = 0 /\ aux.wrote = 0
    /\ \A i \in 1..Len(err) : ~err[i].modified
    /\ \A j \in 1..Len(aux.done) : aux.done[j].wrote = 0

\* A report-mode run that reported two corrections and then failed.
C3_Witness ==
  /\ mpc = "exit0" /\ fix = 0
  /\ Len(ReportsOf(PA)) = 2 /\ Len(err) = 1 /\ ~err[1].modified
  /\ desc[PA].trailer = "over"

\* C4: in apply mode the length of every file is kept and every byte that
\* differs from the original lies in the name field of a central entry, or
\* of the local header it refers to, whose name was reported as corrected.
C4_ApplyOnlyNames ==
  fix = 1 =>
    \A p \in Archives :
      /\ Len(files[p]) = Len(orig[p])
      /\ files[p] # orig[p] =>
           LET names == NameFields(desc[p], Len(ReportsOf(p)))
           IN \A i \in 1..Len(orig[p]) :
                files[p][i] # orig[p][i] => (i - 1) \in names

\* An apply-mode run over an unrelated entry and a corrected one, with an
\* archive comment, that has changed the file.
C4_Witness ==
  /\ mpc = "exit0" /\ fix = 1 /\ err = <<>>
  /\ desc[PA].ents = <<<<97>>, <<97, SLASH, DOT, DOT>>>>
  /\ desc[PA].trailer = "comment"
  /\ files[PA] # orig[PA]

\* C5: for every archive, report mode and apply mode print the same reports
\* and end the same way (success, or failure with the same message).
C5_ReportEqualsApply ==
  \A j \in 1..Len(aux.done) :
    LET a == aux.done[j]
        r == zip_clean(a.path, 0, orig[a.path])
    IN (fix = 1 /\ ~a.fired /\ a.path \in Archives) =>
         /\ ReportsOf(a.path) = r.rep
         /\ a.ok = (r.z.pc = "closed")
         /\ ~a.ok => a.msg = r.diag[1].msg

\* The name in the local header at offset l of file.
LocalName(file, l) == Bytes(file, l + 30, LE(Bytes(file, l + 26, 2)))

\* C6: after an apply-mode run that completes without error, for every
\* central entry (that refers to a local header), the central name and the
\* local name are safe and are the same bytes.
C6_AllNamesSafe ==
  \A j \in 1..Len(aux.done) :
    LET a == aux.done[j]
        d == desc[a.path]
        file == files[a.path]
    IN (fix = 1 /\ a.ok) =>
         \A k \in 1..NEnts(d) :
           LE(Bytes(file, Ref(d, k), 4)) = LOCAL_SIG =>
             LET cn == Bytes(file, CNamePos(d, k), Len(d.ents[k]))
                 ln == LocalName(file, Ref(d, k))
             IN Safe(cn) /\ Safe(ln) /\ cn = ln

\* The first "--" of the command line (Len + 1 when there is none).
FirstDD(av) ==
  IF \E i \in 1..Len(av) : av[i] = DASHDASH
  THEN CHOOSE i \in 1..Len(av) :
         av[i] = DASHDASH /\ \A j \in 1..(i - 1) : av[j] # DASHDASH
  ELSE Len(av) + 1

\* The files the command line names, in order: the arguments that do not
\* start with '-', and every argument after the first "--".
RECURSIVE ExpectedFrom(_, _)
ExpectedFrom(av, i) ==
  IF i > Len(av) THEN <<>>
  ELSE (IF i > FirstDD(av) \/ av[i] = <<>> \/ av[i][1] # DASH
        THEN <<av[i]>> ELSE <<>>) \o ExpectedFrom(av, i + 1)

ExpectedPaths(av) == ExpectedFrom(av, 1)
ExpectedFix(av) ==
  IF \E i \in 1..(FirstDD(av) - 1) : av[i] = DASHF THEN 1 ELSE 0

\* C8: when main ends, every file of the command line has been passed to
\* zip_clean once, in order, and each archive whose call did not fail has
\* the reports and the bytes it gets when processed alone.
C8_Isolated ==
  mpc = "exit0" =>
    /\ calls = ExpectedPaths(argv)
    /\ Len(aux.done) = Len(calls)
    /\ \A j \in 1..Len(aux.done) :
         LET a == aux.done[j]
             r == zip_clean(a.path, ExpectedFix(argv), orig[a.path])
         IN /\ a.path = calls[j]
            /\ a.ok => /\ r.z.pc = "closed"
                       /\ files[a.path] = r.file
                       /\ ReportsOf(a.path) = r.rep

\* Three files of which the middle one fails to open.
C8_Witness ==
  /\ mpc = "exit0" /\ Len(aux.done) = 3
  /\ aux.done[1].ok /\ ~aux.done[2].ok /\ aux.done[3].ok
  /\ Len(ReportsOf(aux.done[1].path)) >= 1
  /\ Len(ReportsOf(aux.done[3].path)) >= 1

\* The number of entries the end record (or the zip64 end record) declares.
Declared(d) ==
  CASE d.trailer \in {"plain", "comment", "zip64", "nozip"} -> NEnts(d)
    [] d.trailer = "over" -> NEnts(d) + 1
    [] OTHER -> FarOff

\* Some step can be taken: the guards of the steps (each step is defined
\* for every state that satisfies its guard).
CanStep ==
  \/ mpc \in {"opts", "files"}
  \/ mpc = "clean" /\ zip.pc \in {"end", "scan", "dir", "entry"}

\* A bound on the number of steps left: RankBase for each turn of main's
\* loops still to come and, within a call, one for each block the scan can
\* still read and for each byte the walker has not passed.
RankBase == FarOff \div 1024
FileLen == IF zip.pc = "idle" THEN 0 ELSE Len(files[zip.path])
CallRank ==
  CASE zip.pc = "end" -> FileLen + 5 + FileLen \div BLOCK
    [] zip.pc = "scan" -> FileLen + 3 + (zip.beg + BLOCK) \div BLOCK
    [] zip.pc = "dir" -> FileLen + 2
    [] zip.pc = "entry" -> 1 + (IF zip.pos >= FileLen THEN 0 ELSE FileLen - zip.pos)
    [] OTHER -> 0
Rank ==
  CASE mpc = "opts" -> (Len(argv) + 2) * RankBase
    [] mpc = "files" -> (Len(argv) + 1 - argi) * RankBase + RankBase - 1
    [] mpc = "clean" -> (Len(argv) + 1 - argi) * RankBase + CallRank
    [] OTHER -> 0

\* C9: processing always terminates: each turn of the scan of zip_end moves
\* one block toward the start of the file, each central entry read starts
\* after the previous one, every step lowers the bound Rank on the steps
\* left, a step can be taken until main has ended, and a call that succeeds
\* has processed exactly the declared number of entries.
C9_Terminates ==
  /\ [][(zip.pc = "scan" /\ zip'.pc = "scan") => zip'.beg = zip.beg - BLOCK]_vars
  /\ [][(zip.pc = "entry" /\ zip'.pc = "entry") => zip'.pos > zip.pos]_vars
  /\ [][Rank' < Rank]_vars
  /\ [](Rank >= 0 /\ CallRank < RankBase - 1)
  /\ [](mpc \notin {"exit0", "exit1"} => CanStep)
  /\ [](\A j \in 1..Len(aux.done) :
          aux.done[j].ok => aux.done[j].nent = Declared(desc[aux.done[j].path]))

\* A zip64 end record declaring 2^64 - 1 entries: the run has processed the
\* two entries there are and ended at the first error.
C9_Witness ==
  /\ mpc = "exit0" /\ desc[PA].trailer = "zip64huge"
  /\ Len(aux.done) = 1 /\ ~aux.done[1].ok /\ ~aux.done[1].fired
  /\ aux.done[1].nent = 2

\* C10: a diagnostic carries "(modified)" exactly when at least one byte of
\* the archive has been overwritten before the failure.
C10_ModifiedIffWritten ==
  \A j \in 1..Len(aux.done) :
    ~aux.done[j].ok => (aux.done[j].modified <=> aux.done[j].wrote > 0)

====
